---- MODULE Spec2Model ----
(***************************************************************************)
(* A model of the Git Impact Analysis Tool: the unified-diff parser        *)
(* (GitOperations.parseDiff), the test-block extractor (TestParser), the   *)
(* import tracker (ImportTracker) and the impact classifier                *)
(* (ImpactAnalyzer).                                                       *)
(*                                                                         *)
(* Text is modelled as it is in the program: a string is a sequence of     *)
(* one-character strings, so that startsWith, endsWith, the regular        *)
(* expressions and parseInt are computed, not assumed.                     *)
(***************************************************************************)
EXTENDS Integers, Sequences, FiniteSets, TLC

(***************************************************************************)
(* Bounds of the model.                                                    *)
(***************************************************************************)
\* longest diff text, in lines, that SpecParse feeds to parseDiff
MaxLines == 11

(***************************************************************************)
(* Strings.                                                                *)
(***************************************************************************)
Digit == <<"0", "1", "2", "3", "4", "5", "6", "7", "8", "9">>

IsDigit(c) == \E d \in 1..10 : Digit[d] = c

DigitVal(c) == (CHOOSE d \in 1..10 : Digit[d] = c) - 1

\* \s of the regular expressions, over the characters the model uses
IsSpace(c) == c = " "

\* String.prototype.startsWith
StartsWith(s, prefix) ==
    /\ Len(s) >= Len(prefix)
    /\ SubSeq(s, 1, Len(prefix)) = prefix

\* String.prototype.endsWith
EndsWith(s, suffix) ==
    /\ Len(s) >= Len(suffix)
    /\ SubSeq(s, Len(s) - Len(suffix) + 1, Len(s)) = suffix

\* parseInt of a non-empty run of decimal digits
RECURSIVE ParseInt(_)
ParseInt(ds) ==
    IF ds = <<>> THEN 0
    ELSE 10 * ParseInt(SubSeq(ds, 1, Len(ds) - 1)) + DigitVal(ds[Len(ds)])

\* the decimal text of a natural number, as git prints it
RECURSIVE Decimal(_)
Decimal(n) ==
    IF n < 10 THEN <<Digit[n + 1]>>
    ELSE Decimal(n \div 10) \o <<Digit[(n % 10) + 1]>>

\* \d+ and \s+ are greedy: the index of the last character of the longest
\* run of digits (of spaces) that starts at p, p - 1 when there is none
DigitRunEnd(s, p) ==
    IF p > Len(s) THEN p - 1
    ELSE CHOOSE e \in (p - 1)..Len(s) :
             /\ \A q \in p..e : IsDigit(s[q])
             /\ e = Len(s) \/ ~IsDigit(s[e + 1])

SpaceRunEnd(s, p) ==
    IF p > Len(s) THEN p - 1
    ELSE CHOOSE e \in (p - 1)..Len(s) :
             /\ \A q \in p..e : IsSpace(s[q])
             /\ e = Len(s) \/ ~IsSpace(s[e + 1])

(***************************************************************************)
(* The texts parseDiff looks for.                                          *)
(***************************************************************************)
DiffGit == <<"d", "i", "f", "f", " ", "-", "-", "g", "i", "t">>
Minus3 == <<"-", "-", "-">>
Plus3 == <<"+", "+", "+">>
AtAt == <<"@", "@">>
DevNull == <<"/", "d", "e", "v", "/", "n", "u", "l", "l">>

\* currentFile = null (a path is never the empty text: the pattern's group
\* is .+, and the program tests currentFile only for truthiness)
NoFile == <<>>

\* line.match(/^---\s+(.+)$/) and line.match(/^\+\+\+\s+(.+)$/): the group
\* of the match, or NoFile when the line does not match. \s+ is greedy and
\* gives back one character when it reaches the end of the line.
MarkerMatch(line) ==
    IF Len(line) >= 5 /\ IsSpace(line[4])
    THEN LET e == SpaceRunEnd(line, 4)
         IN  IF e < Len(line) THEN SubSeq(line, e + 1, Len(line))
             ELSE SubSeq(line, Len(line), Len(line))
    ELSE NoFile

NoMatch == [matched |-> FALSE]

\* (?:,(\d+))? after position e: the index of the last digit of the group,
\* e itself when the group is absent
OptCountEnd(line, e) ==
    IF e + 1 <= Len(line) /\ line[e + 1] = "," /\ DigitRunEnd(line, e + 2) >= e + 2
    THEN DigitRunEnd(line, e + 2)
    ELSE e

\* the literal text t is in line from position q on
TextAt(line, q, t) ==
    /\ q + Len(t) - 1 <= Len(line)
    /\ SubSeq(line, q, q + Len(t) - 1) = t

\* the match with the four groups ending at e1, e2, e3, e4
HunkGroups(line, p, e1, e2, e3, e4) ==
    IF /\ TextAt(line, p, <<"@", "@", " ", "-">>)
       /\ e1 >= p + 4
       /\ TextAt(line, e2 + 1, <<" ", "+">>)
       /\ e3 >= e2 + 3
       /\ TextAt(line, e4 + 1, <<" ", "@", "@">>)
    THEN [matched |-> TRUE,
          g1 |-> SubSeq(line, p + 4, e1),
          g2 |-> SubSeq(line, e1 + 2, e2),
          g3 |-> SubSeq(line, e2 + 3, e3),
          g4 |-> SubSeq(line, e3 + 2, e4)]
    ELSE NoMatch

HunkNewSide(line, p, e1, e2, e3) ==
    HunkGroups(line, p, e1, e2, e3, OptCountEnd(line, e3))

HunkOldCount(line, p, e1, e2) ==
    HunkNewSide(line, p, e1, e2, DigitRunEnd(line, e2 + 3))

HunkOldSide(line, p, e1) ==
    HunkOldCount(line, p, e1, OptCountEnd(line, e1))

\* /@@ -(\d+)(?:,(\d+))? \+(\d+)(?:,(\d+))? @@/ tried at position p: the
\* groups of the match (an absent optional group is the empty text)
HunkMatchAt(line, p) == HunkOldSide(line, p, DigitRunEnd(line, p + 4))

\* line.match(...) of the hunk pattern: unanchored, the leftmost match
FirstHunkAt(line) ==
    CHOOSE p \in 1..Len(line) :
        /\ HunkMatchAt(line, p).matched
        /\ \A q \in 1..(p - 1) : ~HunkMatchAt(line, q).matched

HunkMatch(line) ==
    IF \E p \in 1..Len(line) : HunkMatchAt(line, p).matched
    THEN HunkMatchAt(line, FirstHunkAt(line))
    ELSE NoMatch

\* the loop with j <= count
PushRangeInclusive(xs, start, count) ==
    xs \o [j \in 1..(count + 1) |-> start + j - 1]

\* for (let j = 0; j < count; j++) xs.push(start + j)
PushRange(xs, start, count) == xs \o [j \in 1..count |-> start + j - 1]

(***************************************************************************)
(* parseDiff: one iteration of its loop over the lines of the diff, on the *)
(* locals st = [currentFile, changeType, addedLines, deletedLines,         *)
(* changedFiles].                                                          *)
(***************************************************************************)
ChangedFileOf(st) ==
    [path |-> st.currentFile, changeType |-> st.changeType,
     addedLines |-> st.addedLines, deletedLines |-> st.deletedLines]

\* if (currentFile) changedFiles.push({...})
Flush(st) ==
    IF st.currentFile # NoFile
    THEN Append(st.changedFiles, ChangedFileOf(st))
    ELSE st.changedFiles

\* if (line.startsWith('diff --git')) { save previous; reset }
OnHeader(st) ==
    [currentFile |-> NoFile, changeType |-> "modified",
     addedLines |-> <<>>, deletedLines |-> <<>>,
     changedFiles |-> Flush(st)]

\* if (line.startsWith('---')) { ... }
OnOldMarker(st, line) ==
    LET m == MarkerMatch(line)
    IN  IF m # NoFile /\ m # DevNull THEN [st EXCEPT !.currentFile = m]
        ELSE IF m = DevNull THEN [st EXCEPT !.changeType = "added"]
        ELSE st

\* if (line.startsWith('+++')) { ... }
OnNewMarker(st, line) ==
    LET m == MarkerMatch(line)
    IN  IF m # NoFile /\ m # DevNull THEN [st EXCEPT !.currentFile = m]
        ELSE IF m = DevNull THEN [st EXCEPT !.changeType = "deleted"]
        ELSE st

\* if (line.startsWith('@@')) { ... }
OnHunk(st, line) ==
    LET h == HunkMatch(line)
    IN  IF h.matched
        THEN LET oldStart == ParseInt(h.g1)
                 oldCount == IF h.g2 # <<>> THEN ParseInt(h.g2) ELSE 1
                 newStart == ParseInt(h.g3)
                 newCount == IF h.g4 # <<>> THEN ParseInt(h.g4) ELSE 1
             IN  [st EXCEPT
                    !.deletedLines = PushRange(@, oldStart, oldCount),
                    !.addedLines = PushRange(@, newStart, newCount)]
        ELSE st

\* the body of the for loop: the four tests are made one after the other
ParseStep(st, line) ==
    LET s1 == IF StartsWith(line, DiffGit) THEN OnHeader(st) ELSE st
        s2 == IF StartsWith(line, Minus3) THEN OnOldMarker(s1, line) ELSE s1
        s3 == IF StartsWith(line, Plus3) THEN OnNewMarker(s2, line) ELSE s2
        s4 == IF StartsWith(line, AtAt) THEN OnHunk(s3, line) ELSE s3
    IN  s4

ParseStart ==
    [currentFile |-> NoFile, changeType |-> "modified",
     addedLines |-> <<>>, deletedLines |-> <<>>, changedFiles |-> <<>>]

\* const lines = diff.split('\n'); ...; for (...) {...}; save last file;
\* return changedFiles. The loop takes the lines in order: those of the
\* first half of ls, then, from the locals they leave, those of the second.
RECURSIVE ParseLoop(_, _)
ParseLoop(st, ls) ==
    IF ls = <<>> THEN st
    ELSE IF Len(ls) = 1 THEN ParseStep(st, ls[1])
    ELSE LET half == Len(ls) \div 2
         IN  CHOOSE r \in {ParseLoop(mid, SubSeq(ls, half + 1, Len(ls))) :
                               mid \in {ParseLoop(st, SubSeq(ls, 1, half))}} : TRUE

ParseDiff(ls) == Flush(ParseLoop(ParseStart, ls))

\* the locals of parseDiff when it returns
ParseReturn(ls) ==
    LET Saved(st) == [st EXCEPT !.changedFiles = Flush(st)]
    IN  CHOOSE r \in {Saved(st) : st \in {ParseLoop(ParseStart, ls)}} : TRUE

(***************************************************************************)
(* The version-control collaborator: what `git show <sha> --unified=0      *)
(* --no-prefix` prints. A diff is a sequence of file sections; a section   *)
(* that changes text has the two path marker lines and then its hunks,     *)
(* each a header and the removed and added lines, prefixed by - and +.     *)
(***************************************************************************)
Sp == <<" ">>
PathA == <<"a", ".", "s", "p", "e", "c", ".", "t", "s">>
PathH == <<"h", ".", "t", "s">>

\* one side of a hunk header: start, and ,count unless the count is 1
\* (git leaves ",1" out; other tools write it: explicit)
HunkSide(start, count, explicit) ==
    Decimal(start) \o
    (IF count = 1 /\ ~explicit THEN <<>> ELSE <<",">> \o Decimal(count))

HunkLine(h) ==
    AtAt \o Sp \o <<"-">> \o HunkSide(h.oldStart, Len(h.removed), h.explicit)
         \o Sp \o <<"+">> \o HunkSide(h.newStart, Len(h.added), h.explicit)
         \o Sp \o AtAt \o h.section

RenderHunk(h) ==
    <<HunkLine(h)>> \o [j \in 1..Len(h.removed) |-> <<"-">> \o h.removed[j]]
                    \o [j \in 1..Len(h.added) |-> <<"+">> \o h.added[j]]

RECURSIVE RenderHunks(_)
RenderHunks(hs) ==
    IF hs = <<>> THEN <<>> ELSE RenderHunk(Head(hs)) \o RenderHunks(Tail(hs))

RenderFile(f) ==
    LET name == IF f.new = DevNull THEN f.old ELSE f.new
    IN  <<DiffGit \o Sp \o name \o Sp \o name>> \o
        (IF f.hunks = <<>> THEN <<>>
         ELSE <<Minus3 \o Sp \o f.old, Plus3 \o Sp \o f.new>>) \o
        RenderHunks(f.hunks)

RECURSIVE RenderDiff(_)
RenderDiff(d) ==
    IF d = <<>> THEN <<>> ELSE RenderFile(Head(d)) \o RenderDiff(Tail(d))

HunkSize(h) == 1 + Len(h.removed) + Len(h.added)

FileSize(f) == 1 + (IF f.hunks = <<>> THEN 0 ELSE 2) + Len(RenderHunks(f.hunks))

(***************************************************************************)
(* The diff texts SpecParse draws from: every diff of at most MaxLines     *)
(* lines made of the sections and hunks below. The lines of a file are     *)
(* ordinary text, or text that begins with two dashes or two pluses (an    *)
(* SQL or Lua comment, a decrement, a line of a patch kept as a fixture).  *)
(***************************************************************************)
TextX == <<"x">>
TextDashNull == <<"-", "-", " ">> \o DevNull
TextDashPath == <<"-", "-", " ">> \o PathH
TextPlusNull == <<"+", "+", " ">> \o DevNull

RemovedTexts == {TextX, TextDashNull, TextDashPath}
AddedTexts == {TextX, TextPlusNull}

\* all sequences over S of length n
RECURSIVE SeqsOfLen(_, _)
SeqsOfLen(S, n) ==
    IF n = 0 THEN {<<>>}
    ELSE {Append(r, x) : r \in SeqsOfLen(S, n - 1), x \in S}

HunkShapes ==
    { [oldStart |-> 9, nr |-> 1, newStart |-> 10, na |-> 1,
       explicit |-> FALSE, section |-> <<>>],
      [oldStart |-> 9, nr |-> 2, newStart |-> 8, na |-> 0,
       explicit |-> FALSE, section |-> <<>>],
      [oldStart |-> 0, nr |-> 0, newStart |-> 1, na |-> 2,
       explicit |-> FALSE, section |-> <<" ", "f", "n">>],
      [oldStart |-> 3, nr |-> 1, newStart |-> 3, na |-> 1,
       explicit |-> TRUE, section |-> <<>>] }

HunksOf(shape) ==
    { [oldStart |-> shape.oldStart, newStart |-> shape.newStart,
       removed |-> r, added |-> a,
       explicit |-> shape.explicit, section |-> shape.section] :
        r \in SeqsOfLen(RemovedTexts, shape.nr),
        a \in SeqsOfLen(AddedTexts, shape.na) }

ModifyHunks == UNION {HunksOf(s) : s \in HunkShapes}

\* the one hunk of a new file of n lines, and of a deleted file of n lines
AddHunks ==
    UNION {HunksOf([oldStart |-> 0, nr |-> 0, newStart |-> 1, na |-> n,
                    explicit |-> FALSE, section |-> <<>>]) : n \in 1..2}
DelHunks ==
    UNION {HunksOf([oldStart |-> 1, nr |-> n, newStart |-> 0, na |-> 0,
                    explicit |-> FALSE, section |-> <<>>]) : n \in 1..2}

\* the sequences of hunks of a modified file that print in at most n lines
RECURSIVE HunkSeqs(_)
HunkSeqs(n) ==
    {<<>>} \cup
    UNION { {<<h>> \o r : r \in HunkSeqs(n - HunkSize(h))} :
            h \in {g \in ModifyHunks : HunkSize(g) <= n} }

FileDiffs(n) ==
    \* a mode change or a binary file: no markers, no hunks
    {[old |-> PathA, new |-> PathA, hunks |-> <<>>]}
    \cup {[old |-> PathA, new |-> PathA, hunks |-> hs] :
            hs \in HunkSeqs(n - 3) \ {<<>>}}
    \cup {[old |-> DevNull, new |-> PathA, hunks |-> <<h>>] :
            h \in {g \in AddHunks : HunkSize(g) <= n - 3}}
    \cup {[old |-> PathA, new |-> DevNull, hunks |-> <<h>>] :
            h \in {g \in DelHunks : HunkSize(g) <= n - 3}}

RECURSIVE Diffs(_)
Diffs(n) ==
    {<<>>} \cup
    UNION { {<<f>> \o r : r \in Diffs(n - FileSize(f))} :
            f \in {g \in FileDiffs(n) : FileSize(g) <= n} }

(***************************************************************************)
(* Source files. A file is a sequence of lines; a line is what the syntax  *)
(* tree makes of it: the first line of a call with a callback             *)
(* (callee('name', () => {), a statement, the line closing a call (});)    *)
(* or an import. Text(l) is the text of the line, which git prints.        *)
(***************************************************************************)
Chars_test == <<"t", "e", "s", "t">>
Chars_skip == Chars_test \o <<".", "s", "k", "i", "p">>
Chars_only == Chars_test \o <<".", "o", "n", "l", "y">>
Chars_describe == Chars_test \o <<".", "d", "e", "s", "c", "r", "i", "b", "e">>
Chars_fixme == Chars_test \o <<".", "f", "i", "x", "m", "e">>

Open(callee, name) == [k |-> "open", callee |-> callee, name |-> name, args |-> 2]
Stmt(name) == [k |-> "stmt", callee |-> name, name |-> <<>>, args |-> 0]
Close == [k |-> "close", callee |-> <<>>, name |-> <<>>, args |-> 0]
Import(specifier) == [k |-> "import", callee |-> <<>>, name |-> specifier, args |-> 0]
\* a line that is no code (a line of a text file)
Plain(text) == [k |-> "plain", callee |-> <<>>, name |-> text, args |-> 0]

Text(l) ==
    CASE l.k = "open" ->
            l.callee \o <<"(", "'">> \o l.name \o
            <<"'", ",", " ", "(", ")", " ", "=", ">", " ", "{">>
      [] l.k = "stmt" -> l.callee \o <<"(", ")", ";">>
      [] l.k = "close" -> <<"}", ")", ";">>
      [] l.k = "import" ->
            <<"i", "m", "p", "o", "r", "t", " ", "'">> \o l.name \o <<"'", ";">>
      [] l.k = "plain" -> l.name

\* the line that closes the call opened on line s
EndLine(content, s) ==
    LET Depth(e) ==
            Cardinality({q \in s..e : content[q].k = "open"}) -
            Cardinality({q \in s..e : content[q].k = "close"})
    IN  CHOOSE e \in s..Len(content) :
            Depth(e) = 0 /\ \A q \in s..(e - 1) : Depth(q) > 0

\* TestParser.isTestCall
IsTestCall(expressionText) ==
    \/ expressionText = Chars_test
    \/ expressionText = Chars_skip
    \/ expressionText = Chars_only
    \/ expressionText = Chars_describe
    \/ expressionText = Chars_fixme

\* TestParser.extractTests with extractTestInfo: the calls of the file in
\* the order of the tree walk; a test call with two arguments gives its
\* name and the first and last line of the call
RECURSIVE ExtractFrom(_, _)
ExtractFrom(content, s) ==
    IF s > Len(content) THEN <<>>
    ELSE (IF /\ content[s].k = "open"
             /\ IsTestCall(content[s].callee)
             /\ ~(content[s].args < 2)
          THEN <<[name |-> content[s].name, startLine |-> s,
                  endLine |-> EndLine(content, s)]>>
          ELSE <<>>) \o ExtractFrom(content, s + 1)

ExtractTests(content) == ExtractFrom(content, 1)

\* the line range test that stops short of the last line
IsLineInRangeExclusive(line, startLine, endLine) ==
    line >= startLine /\ line < endLine

\* TestParser.isLineInRange
IsLineInRange(line, startLine, endLine) ==
    line >= startLine /\ line <= endLine

\* TestParser.hasOverlap
HasOverlap(ls, startLine, endLine) ==
    \E j \in 1..Len(ls) : IsLineInRange(ls[j], startLine, endLine)

(***************************************************************************)
(* File versions. A version that does not exist is Absent (the fetch       *)
(* returns null); one that exists has a text, possibly of no lines.        *)
(***************************************************************************)
Absent == [present |-> FALSE, text |-> <<>>]
Present(content) == [present |-> TRUE, text |-> content]

\* if (content): null and the empty text are both falsy
Truthy(v) == v.present /\ v.text # <<>>

(***************************************************************************)
(* Paths (node's path module, on the shapes the program meets): a path is  *)
(* text; its segments are what lies between the slashes.                   *)
(***************************************************************************)
RECURSIVE SplitPath(_)
SplitPath(p) ==
    IF \A q \in 1..Len(p) : p[q] # "/" THEN <<p>>
    ELSE LET q == CHOOSE x \in 1..Len(p) :
                      p[x] = "/" /\ \A y \in 1..(x - 1) : p[y] # "/"
         IN  <<SubSeq(p, 1, q - 1)>> \o SplitPath(SubSeq(p, q + 1, Len(p)))

\* . and empty segments go, .. takes the segment before it
RECURSIVE NormalizeSegs(_, _)
NormalizeSegs(done, segs) ==
    IF segs = <<>> THEN done
    ELSE LET x == Head(segs)
         IN  IF x = <<>> \/ x = <<".">> THEN NormalizeSegs(done, Tail(segs))
             ELSE IF x = <<".", ".">>
             THEN NormalizeSegs(IF done = <<>> THEN done
                                ELSE SubSeq(done, 1, Len(done) - 1), Tail(segs))
             ELSE NormalizeSegs(Append(done, x), Tail(segs))

RECURSIVE JoinSegs(_)
JoinSegs(segs) ==
    IF segs = <<>> THEN <<>>
    ELSE IF Len(segs) = 1 THEN segs[1]
    ELSE segs[1] \o <<"/">> \o JoinSegs(Tail(segs))

IsAbsolute(p) == p # <<>> /\ p[1] = "/"

\* path.resolve(base, p), base absolute
PathResolve(base, p) ==
    <<"/">> \o JoinSegs(NormalizeSegs(<<>>,
        IF IsAbsolute(p) THEN SplitPath(p) ELSE SplitPath(base) \o SplitPath(p)))

\* path.join(a, b), a absolute
PathJoin(a, b) ==
    <<"/">> \o JoinSegs(NormalizeSegs(<<>>, SplitPath(a) \o SplitPath(b)))

\* path.dirname(p), p absolute
PathDirname(p) ==
    LET segs == NormalizeSegs(<<>>, SplitPath(p))
    IN  <<"/">> \o JoinSegs(SubSeq(segs, 1, Len(segs) - 1))

\* path.relative(from, to), both absolute
PathRelative(from, to) ==
    LET a == NormalizeSegs(<<>>, SplitPath(from))
        b == NormalizeSegs(<<>>, SplitPath(to))
        Common(n) == n <= Len(a) /\ n <= Len(b) /\ SubSeq(a, 1, n) = SubSeq(b, 1, n)
        c == CHOOSE n \in 0..Len(a) : Common(n) /\ ~Common(n + 1)
    IN  JoinSegs([j \in 1..(Len(a) - c) |-> <<".", ".">>] \o SubSeq(b, c + 1, Len(b)))

(***************************************************************************)
(* The repository and the commit analysed.                                 *)
(***************************************************************************)
\* most test blocks in a version of the changed test file
MaxBlocks == 2

\* this.repoPath (the command line resolves it to an absolute path)
RepoPath == <<"/", "r">>

DotTs == <<".", "t", "s">>
SpecTs == <<".", "s", "p", "e", "c">> \o DotTs
TestTs == <<".", "t", "e", "s", "t">> \o DotTs
IndexTs == <<"i", "n", "d", "e", "x">> \o DotTs

PathB == <<"b">> \o TestTs
PathC == <<"c">> \o SpecTs
PathD == <<"d">> \o SpecTs
PathG == <<"g">> \o DotTs
PathE == <<"e">> \o SpecTs
PathF == <<"f">> \o SpecTs
PathN == <<"n", ".", "m", "d">>

NameA == <<"A">>
NameB == <<"B">>
NameC == <<"C">>
NameD == <<"D">>
NameT == <<"T">>
NameE == <<"E">>
NameF == <<"F">>
StmtF == Stmt(<<"f">>)
StmtG == Stmt(<<"g">>)

\* the test blocks a version of a.spec.ts is made of
Blocks ==
    { <<Open(Chars_test, NameA), StmtF, Close>>,
      <<Open(Chars_test, NameA), StmtG, Close>>,
      <<Open(Chars_test, NameA), StmtF, StmtG, Close>>,
      <<Open(Chars_test, NameB), StmtF, Close>> }

RECURSIVE Contents(_)
Contents(n) ==
    IF n = 0 THEN {<<>>}
    ELSE Contents(n - 1) \cup
         {c \o b : c \in Contents(n - 1), b \in Blocks}

Versions == {Absent} \cup {Present(c) : c \in Contents(MaxBlocks)}

\* the lines two texts start with in common, and end with in common once
\* those are set aside
CommonPrefix(a, b) ==
    CHOOSE n \in 0..Len(a) :
        /\ n <= Len(b) /\ SubSeq(a, 1, n) = SubSeq(b, 1, n)
        /\ ~(n < Len(a) /\ n < Len(b) /\ a[n + 1] = b[n + 1])

CommonSuffix(a, b) ==
    CHOOSE n \in 0..Len(a) :
        /\ n <= Len(b)
        /\ SubSeq(a, Len(a) - n + 1, Len(a)) = SubSeq(b, Len(b) - n + 1, Len(b))
        /\ ~(n < Len(a) /\ n < Len(b) /\ a[Len(a) - n] = b[Len(b) - n])

\* the lines a change takes out and puts in, and where
ChangeOf(ch) ==
    LET a == ch.old.text
        b == ch.new.text
        p == CommonPrefix(a, b)
        s == CommonSuffix(SubSeq(a, p + 1, Len(a)), SubSeq(b, p + 1, Len(b)))
    IN  [prefix |-> p,
         removed |-> SubSeq(a, p + 1, Len(a) - s),
         added |-> SubSeq(b, p + 1, Len(b) - s)]

\* the change is one hunk for git: the lines taken out and the lines put in
\* have no line in common
OneHunk(ch) ==
    LET c == ChangeOf(ch)
    IN  \A x \in 1..Len(c.removed), y \in 1..Len(c.added) : c.removed[x] # c.added[y]

\* the section git prints for a changed file: no markers and no hunk when no
\* line differs (an empty file added or deleted)
FileDiffOf(ch) ==
    LET c == ChangeOf(ch)
    IN  [old |-> IF ch.old.present THEN ch.path ELSE DevNull,
         new |-> IF ch.new.present THEN ch.path ELSE DevNull,
         hunks |->
            IF c.removed = <<>> /\ c.added = <<>> THEN <<>>
            ELSE <<[oldStart |-> IF c.removed = <<>> THEN c.prefix ELSE c.prefix + 1,
                    newStart |-> IF c.added = <<>> THEN c.prefix ELSE c.prefix + 1,
                    removed |-> [j \in 1..Len(c.removed) |-> Text(c.removed[j])],
                    added |-> [j \in 1..Len(c.added) |-> Text(c.added[j])],
                    explicit |-> FALSE, section |-> <<>>]>>]

GitDiffOf(changes) == [j \in 1..Len(changes) |-> FileDiffOf(changes[j])]

Changes(path, versions) ==
    {ch \in [path : {path}, old : versions, new : versions] :
        /\ ch.old # ch.new
        /\ OneHunk(ch)}

\* the commits analysed: a.spec.ts changed or not, h.ts changed or not
TestChanges == Changes(PathA, Versions)
HelperChanges == Changes(PathH, {Absent, Present(<<StmtF>>), Present(<<StmtG>>)})

\* a commit to the notes file n.md: the line "++ a.spec.ts" comes or goes
TextPlusPath == <<"+", "+", " ">> \o PathA
NoteChanges ==
    Changes(PathN, {Present(<<Plain(TextX)>>),
                    Present(<<Plain(TextX), Plain(TextPlusPath)>>)})

Commits ==
    {t \o h : t \in {<<>>} \cup {<<ch>> : ch \in TestChanges},
              h \in {<<>>} \cup {<<ch>> : ch \in HelperChanges}}
    \cup {<<ch>> : ch \in NoteChanges}

\* the commit references analyzeCommit is given: one that git resolves to
\* the commit, one that it does not resolve
ShaHead == <<"H", "E", "A", "D">>
ShaBad == <<"b", "a", "d">>
Shas == {ShaHead, ShaBad}

\* the files neither changed by the commit nor a version of a.spec.ts, h.ts
BaseFiles ==
    << [name |-> PathA, content |-> <<Open(Chars_test, NameA), StmtF, Close>>],
       [name |-> PathB, content |-> <<Import(<<".", "/", "h">>),
                                      Open(Chars_test, NameT), StmtF, Close>>],
       [name |-> PathC, content |-> <<Import(<<".", "/", "h">>),
                                      Open(Chars_describe, NameC),
                                      Open(Chars_test, NameA), StmtF, Close,
                                      Close>>],
       [name |-> PathD, content |-> <<Import(<<".", "/", "g">>),
                                      Open(Chars_test, NameD), StmtF, Close>>],
       [name |-> PathE, content |-> <<Import(<<".", "/", "g">>),
                                      Import(<<".", "/", "h">>),
                                      Open(Chars_test, NameE), StmtF, Close>>],
       [name |-> PathF, content |-> <<Import(PathH),
                                      Open(Chars_test, NameF), StmtF, Close>>],
       [name |-> PathG, content |-> <<StmtG>>],
       [name |-> PathH, content |-> <<StmtF>>],
       [name |-> PathN, content |-> <<Plain(TextX)>>] >>
(***************************************************************************)
(* State.                                                                  *)
(***************************************************************************)
VARIABLES
    pc,            \* where the program is
    commit,        \* the commit analysed: the files it changes, old and new
    tree,          \* the working tree: its files, as readdirSync lists them
    gitDiff,       \* the diff as git has it (its sections and hunks)
    lines, i,      \* parseDiff: the lines of the diff text, the loop index
    currentFile, changeType, addedLines, deletedLines,   \* parseDiff's locals
    changedFiles,  \* parseDiff's result
    testFiles, helperFiles,   \* analyzeCommit: the two lists of changed files
    ti, hi,        \* analyzeCommit: how far its two loops are
    beforeContent, currentContent,    \* analyzeTestFile: what it fetched last
    directImpacts, indirectImpacts,   \* analyzeCommit: the last file's results
    impacts,       \* analyzeCommit: the results so far
    commitSha,     \* analyzeCommit: the commit reference it is given
    error,         \* the message of the error analyzeCommit is rejected with
    project,       \* TestParser.project: the source files it has added
    run,           \* how many times analyzeCommit was called on the analyzer
    fetchLog,      \* what the two fetches returned, test file after test file
    firstImpacts   \* what the first call of analyzeCommit returned

parserVars == <<gitDiff, lines, i, currentFile, changeType, addedLines,
                deletedLines, changedFiles>>
analyzerVars == <<commit, tree, testFiles, helperFiles, ti, hi, beforeContent,
                  currentContent, directImpacts, indirectImpacts, impacts,
                  commitSha, error, project, run, fetchLog, firstImpacts>>
vars == <<pc, commit, tree, gitDiff, lines, i, currentFile, changeType, addedLines,
          deletedLines, changedFiles, testFiles, helperFiles, ti, hi,
          beforeContent, currentContent, directImpacts, indirectImpacts,
          impacts, commitSha, error, project, run, fetchLog, firstImpacts>>

Locals ==
    [currentFile |-> currentFile, changeType |-> changeType,
     addedLines |-> addedLines, deletedLines |-> deletedLines,
     changedFiles |-> changedFiles]

SetLocals(st) ==
    /\ currentFile' = st.currentFile
    /\ changeType' = st.changeType
    /\ addedLines' = st.addedLines
    /\ deletedLines' = st.deletedLines
    /\ changedFiles' = st.changedFiles

ParserIdle ==
    /\ gitDiff = <<>>
    /\ lines = <<>>
    /\ i = 0
    /\ currentFile = NoFile
    /\ changeType = "modified"
    /\ addedLines = <<>>
    /\ deletedLines = <<>>
    /\ changedFiles = <<>>

AnalyzerIdle ==
    /\ testFiles = <<>>
    /\ helperFiles = <<>>
    /\ ti = 0
    /\ hi = 0
    /\ beforeContent = Absent
    /\ currentContent = Absent
    /\ directImpacts = <<>>
    /\ indirectImpacts = <<>>
    /\ impacts = <<>>
    /\ error = <<>>
    /\ project = {}
    /\ run = 1
    /\ fetchLog = <<>>
    /\ firstImpacts = <<>>

(***************************************************************************)
(* The diff parser on its own: parseDiff is entered with the text of a     *)
(* diff and runs its loop.                                                 *)
(***************************************************************************)
InitParse ==
    /\ pc = "parse"
    /\ commit = <<>>
    /\ commitSha = <<>>
    /\ tree = <<>>
    /\ gitDiff \in Diffs(MaxLines)
    /\ lines = RenderDiff(gitDiff)
    /\ i = 0
    /\ currentFile = NoFile
    /\ changeType = "modified"
    /\ addedLines = <<>>
    /\ deletedLines = <<>>
    /\ changedFiles = <<>>
    /\ AnalyzerIdle

\* one iteration of the loop of parseDiff
ParseLine ==
    /\ pc = "parse"
    /\ i < Len(lines)
    /\ i' = i + 1
    /\ SetLocals(ParseStep(Locals, lines[i + 1]))
    /\ UNCHANGED <<pc, gitDiff, lines>>
    /\ UNCHANGED analyzerVars

\* the end of parseDiff: the last file is saved and the list returned
ParseEnd ==
    /\ pc = "parse"
    /\ i = Len(lines)
    /\ pc' = "parsed"
    /\ changedFiles' = Flush(Locals)
    /\ UNCHANGED <<gitDiff, lines, i, currentFile, changeType, addedLines,
                   deletedLines>>
    /\ UNCHANGED analyzerVars

NextParse == ParseLine \/ ParseEnd

SpecParse == InitParse /\ [][NextParse]_vars

(***************************************************************************)
(* The repository at the commit analysed (the working tree is checked out  *)
(* at it): version fetcher and file system.                                *)
(***************************************************************************)
ChangeFor(path) ==
    LET js == {j \in 1..Len(commit) : commit[j].path = path}
    IN  IF js = {} THEN [path |-> path, old |-> Absent, new |-> Absent, none |-> TRUE]
        ELSE LET ch == commit[CHOOSE j \in js : TRUE]
             IN  [path |-> path, old |-> ch.old, new |-> ch.new, none |-> FALSE]

BaseVersion(path) ==
    LET js == {j \in 1..Len(BaseFiles) : BaseFiles[j].name = path}
    IN  IF js = {} THEN Absent
        ELSE Present(BaseFiles[CHOOSE j \in js : TRUE].content)

\* git show <sha>:<path> and git show <sha>^:<path>
VersionAt(path) ==
    IF ChangeFor(path).none THEN BaseVersion(path) ELSE ChangeFor(path).new

VersionBefore(path) ==
    IF ChangeFor(path).none THEN BaseVersion(path) ELSE ChangeFor(path).old

\* the files of the working tree: those that exist at the commit, each with
\* its name, its full path (path.join(dir, file)) and its text
BaseTree ==
    [j \in 1..Len(BaseFiles) |->
        [name |-> BaseFiles[j].name,
         fullPath |-> PathJoin(RepoPath, BaseFiles[j].name),
         content |-> BaseFiles[j].content]]

IsAtHead(f) == VersionAt(f.name).present
TreeAtHead ==
    LET here == SelectSeq(BaseTree, IsAtHead)
    IN  [j \in 1..Len(here) |->
            [here[j] EXCEPT !.content = VersionAt(here[j].name).text]]

\* fs.existsSync
ExistsSync(p) ==
    \/ p = RepoPath
    \/ \E j \in 1..Len(tree) : tree[j].fullPath = p

\* the text of the file at an absolute path
ReadFile(p) ==
    tree[CHOOSE j \in 1..Len(tree) : tree[j].fullPath = p].content

\* TestParser's project.addSourceFileAtPath: the source file the project
\* already has for the path, or else the file read from the working tree
InProject(p) == \E sf \in project : sf.fullPath = p
AddSourceFileAtPath(p) ==
    IF InProject(p) THEN (CHOOSE sf \in project : sf.fullPath = p).content
    ELSE ReadFile(p)

(***************************************************************************)
(* ImportTracker.                                                          *)
(***************************************************************************)
\* findAllSpecFiles (the tree of the model has no directory below its root)
IsSpecEntry(f) == EndsWith(f.name, SpecTs)
FindAllSpecFiles ==
    LET found == SelectSeq(tree, IsSpecEntry)
    IN  [j \in 1..Len(found) |-> found[j].fullPath]

\* extractImports
IsImport(l) == l.k = "import"
ExtractImports(filePath) ==
    LET decls == SelectSeq(ReadFile(filePath), IsImport)
    IN  [j \in 1..Len(decls) |-> decls[j].name]

\* resolveImportPath
ResolveImportPath(fromFile, importPath) ==
    IF StartsWith(importPath, <<".">>)
    THEN LET resolved == PathResolve(PathDirname(fromFile), importPath)
         IN  IF ~ExistsSync(resolved)
             THEN IF ExistsSync(resolved \o DotTs) THEN resolved \o DotTs
                  ELSE IF ExistsSync(PathJoin(resolved, IndexTs))
                  THEN PathJoin(resolved, IndexTs)
                  ELSE resolved
             ELSE resolved
    ELSE importPath

\* normalizePath
NormalizePath(filePath) == PathResolve(RepoPath, filePath)

\* findTestFilesImporting
ImportsHelper(specFile, helperPath) ==
    LET imports == ExtractImports(specFile)
    IN  \E j \in 1..Len(imports) :
            NormalizePath(ResolveImportPath(specFile, imports[j]))
                = NormalizePath(helperPath)

FindTestFilesImporting(helperPath) ==
    LET Imports(specFile) == ImportsHelper(specFile, helperPath)
    IN  SelectSeq(FindAllSpecFiles, Imports)

(***************************************************************************)
(* TestParser.parseTestFile and ImpactAnalyzer.                            *)
(***************************************************************************)
\* parseTestFile(filePath, content?): the content when it is given (and
\* truthy), the file of the working tree otherwise
ParseTestFile(filePath, content) ==
    IF Truthy(content) THEN ExtractTests(content.text)
    ELSE ExtractTests(AddSourceFileAtPath(filePath))

\* isTestFile with the second suffix forgotten
IsSpecFileOnly(filePath) == EndsWith(filePath, SpecTs)

\* isTestFile
IsTestFile(filePath) == EndsWith(filePath, SpecTs) \/ EndsWith(filePath, TestTs)

Direct(test, changedFile, impactType) ==
    [testName |-> test.name, filePath |-> changedFile.path,
     impactType |-> impactType]

\* the loop over the tests left after its first iteration
ResultsOfFirst(tests, changedFile, impactType) ==
    [j \in 1..(IF tests = <<>> THEN 0 ELSE 1) |->
        Direct(tests[j], changedFile, impactType)]

Results(tests, changedFile, impactType) ==
    [j \in 1..Len(tests) |-> Direct(tests[j], changedFile, impactType)]

HasName(tests, name) == \E j \in 1..Len(tests) : tests[j].name = name

\* the modified branch of analyzeTestFile, on the tests of the two versions
CompareVersions(changedFile, beforeTests, currentTests) ==
    LET IsAdded(test) ==
            /\ ~HasName(beforeTests, test.name)
            /\ \/ HasOverlap(changedFile.addedLines, test.startLine, test.endLine)
               \/ ~HasName(beforeTests, test.name)
        IsRemoved(test) == ~HasName(currentTests, test.name)
        added == Results(SelectSeq(currentTests, IsAdded), changedFile, "added")
        removed == Results(SelectSeq(beforeTests, IsRemoved), changedFile, "removed")
        AlreadyAdded(test) ==
            \E j \in 1..Len(added) : added[j].testName = test.name
        IsModified(test) ==
            /\ HasName(beforeTests, test.name)
            /\ HasOverlap(changedFile.addedLines, test.startLine, test.endLine)
            /\ ~AlreadyAdded(test)
        modified == Results(SelectSeq(currentTests, IsModified), changedFile, "modified")
    IN  added \o removed \o modified

\* analyzeTestFile with the check of the content of an added file left out
AnalyzeTestFileUnguarded(changedFile, before, current) ==
    LET filePath == PathJoin(RepoPath, changedFile.path)
    IN  IF changedFile.changeType = "added"
        THEN Results(ParseTestFile(filePath, current), changedFile, "added")
        ELSE IF changedFile.changeType = "deleted"
        THEN IF Truthy(before)
             THEN Results(ParseTestFile(filePath, before), changedFile, "removed")
             ELSE <<>>
        ELSE IF Truthy(before) /\ Truthy(current)
             THEN CompareVersions(changedFile,
                                  ParseTestFile(filePath, before),
                                  ParseTestFile(filePath, current))
             ELSE <<>>

\* analyzeTestFile, given what the two fetches return
AnalyzeTestFile(changedFile, before, current) ==
    LET filePath == PathJoin(RepoPath, changedFile.path)
    IN  IF changedFile.changeType = "added"
        THEN IF Truthy(current)
             THEN Results(ParseTestFile(filePath, current), changedFile, "added")
             ELSE <<>>
        ELSE IF changedFile.changeType = "deleted"
        THEN IF Truthy(before)
             THEN Results(ParseTestFile(filePath, before), changedFile, "removed")
             ELSE <<>>
        ELSE IF Truthy(before) /\ Truthy(current)
             THEN CompareVersions(changedFile,
                                  ParseTestFile(filePath, before),
                                  ParseTestFile(filePath, current))
             ELSE <<>>

\* the results for one importing test file with the isIndirect flag left out
IndirectOfUnflagged(testFilePath) ==
    LET tests == ParseTestFile(testFilePath, Absent)
        relativePath == PathRelative(RepoPath, testFilePath)
    IN  [j \in 1..Len(tests) |->
            [testName |-> tests[j].name, filePath |-> relativePath,
             impactType |-> "modified"]]

\* the results of analyzeHelperFile for one importing test file
IndirectOf(testFilePath) ==
    LET tests == ParseTestFile(testFilePath, Absent)
        relativePath == PathRelative(RepoPath, testFilePath)
    IN  [j \in 1..Len(tests) |->
            [testName |-> tests[j].name, filePath |-> relativePath,
             impactType |-> "modified", isIndirect |-> TRUE]]

RECURSIVE IndirectOfAll(_)
IndirectOfAll(testFilePaths) ==
    IF testFilePaths = <<>> THEN <<>>
    ELSE IndirectOf(Head(testFilePaths)) \o IndirectOfAll(Tail(testFilePaths))

\* analyzeHelperFile
AnalyzeHelperFile(changedFile) ==
    IndirectOfAll(FindTestFilesImporting(PathJoin(RepoPath, changedFile.path)))

\* the source files analyzeHelperFile leaves in the project of TestParser:
\* parseTestFile forgets a source file only when it was given the content
SourceFilesOf(changedFile) ==
    LET paths == FindTestFilesImporting(PathJoin(RepoPath, changedFile.path))
    IN  {[fullPath |-> paths[j], content |-> AddSourceFileAtPath(paths[j])] :
            j \in 1..Len(paths)}

(***************************************************************************)
(* analyzeCommit.                                                          *)
(***************************************************************************)
\* what git says when git show fails
GitErrors == {<<"f", "a", "t", "a", "l">>}

\* the message without the commit reference
FailedToGetDiffOnly(sha, gitError) ==
    <<"F", "a", "i", "l", "e", "d", " ", "t", "o", " ", "g", "e", "t", " ",
      "d", "i", "f", "f", ":", " ">> \o gitError

\* `Failed to get diff for commit ${commitSha}: ${error}`
FailedToGetDiff(sha, gitError) ==
    <<"F", "a", "i", "l", "e", "d", " ", "t", "o", " ", "g", "e", "t", " ",
      "d", "i", "f", "f", " ", "f", "o", "r", " ", "c", "o", "m", "m", "i", "t",
      " ">> \o sha \o <<":", " ">> \o gitError

Init ==
    /\ pc = "start"
    /\ commitSha \in Shas
    /\ commit \in IF commitSha = ShaBad THEN {<<>>} ELSE Commits
    /\ tree = TreeAtHead
    /\ ParserIdle
    /\ AnalyzerIdle

\* getChangedFiles fails: git cannot show the commit, getCommitDiff throws
\* and analyzeCommit is rejected with the error
GetCommitDiffFails ==
    /\ pc = "start"
    /\ pc' = "failed"
    /\ \E gitError \in GitErrors : error' = FailedToGetDiff(commitSha, gitError)
    /\ UNCHANGED parserVars
    /\ UNCHANGED <<commit, tree, testFiles, helperFiles, ti, hi, beforeContent,
                   currentContent, directImpacts, indirectImpacts, impacts,
                   commitSha, project, run, fetchLog, firstImpacts>>

IsTestChange(f) == IsTestFile(f.path)
IsHelperChange(f) == ~IsTestFile(f.path) /\ EndsWith(f.path, DotTs)

\* getChangedFiles returns: git show prints the diff, parseDiff parses it,
\* and analyzeCommit splits the changed files in two lists
GetChangedFiles ==
    /\ pc = "start"
    /\ commitSha # ShaBad
    /\ pc' = "analyze"
    /\ gitDiff' = GitDiffOf(commit)
    /\ lines' = RenderDiff(gitDiff')
    /\ i' = Len(lines')
    /\ \E st \in {ParseReturn(lines')} : SetLocals(st)
    /\ testFiles' = SelectSeq(changedFiles', IsTestChange)
    /\ helperFiles' = SelectSeq(changedFiles', IsHelperChange)
    /\ UNCHANGED <<commit, tree, ti, hi, beforeContent, currentContent,
                   directImpacts, indirectImpacts, impacts, commitSha, error,
                   project, run, fetchLog, firstImpacts>>

\* what a fetch of a version can return: the version, or null when git show
\* fails
Fetched(version) == {version, Absent}

\* one iteration of the first loop: analyzeTestFile on the next test file
AnalyzeCommitTestFile ==
    /\ pc = "analyze"
    /\ ti < Len(testFiles)
    /\ LET changedFile == testFiles[ti + 1]
       IN  \E before \in IF changedFile.changeType = "added" THEN {Absent}
                         ELSE Fetched(VersionBefore(changedFile.path)),
              current \in IF changedFile.changeType = "deleted" THEN {Absent}
                          ELSE Fetched(VersionAt(changedFile.path)) :
              /\ run > 1 => <<before, current>> = fetchLog[ti + 1]
              /\ beforeContent' = before
              /\ currentContent' = current
              /\ directImpacts' = AnalyzeTestFile(changedFile, before, current)
              /\ impacts' = impacts \o directImpacts' 
              /\ fetchLog' = IF run > 1 THEN fetchLog
                             ELSE Append(fetchLog, <<before, current>>)
    /\ ti' = ti + 1
    /\ UNCHANGED <<pc, commit, tree, testFiles, helperFiles, hi, indirectImpacts,
                   commitSha, error, project, run, firstImpacts>>
    /\ UNCHANGED parserVars

\* the second loop leaving out the results of a test that impacts has
AnalyzeCommitHelperFileMerged ==
    /\ pc = "analyze"
    /\ ti = Len(testFiles)
    /\ hi < Len(helperFiles)
    /\ indirectImpacts' = AnalyzeHelperFile(helperFiles[hi + 1])
    /\ LET IsNew(r) ==
               ~\E j \in 1..Len(impacts) :
                   /\ impacts[j].testName = r.testName
                   /\ impacts[j].filePath = r.filePath
       IN  impacts' = impacts \o SelectSeq(indirectImpacts', IsNew)
    /\ project' = project \cup SourceFilesOf(helperFiles[hi + 1])
    /\ hi' = hi + 1
    /\ UNCHANGED <<pc, commit, tree, testFiles, helperFiles, ti, beforeContent,
                   currentContent, directImpacts, commitSha, error, run,
                   fetchLog, firstImpacts>>
    /\ UNCHANGED parserVars

\* one iteration of the second loop: analyzeHelperFile on the next helper
AnalyzeCommitHelperFile ==
    /\ pc = "analyze"
    /\ ti = Len(testFiles)
    /\ hi < Len(helperFiles)
    /\ indirectImpacts' = AnalyzeHelperFile(helperFiles[hi + 1])
    /\ impacts' = impacts \o indirectImpacts' 
    /\ project' = project \cup SourceFilesOf(helperFiles[hi + 1])
    /\ hi' = hi + 1
    /\ UNCHANGED <<pc, commit, tree, testFiles, helperFiles, ti, beforeContent,
                   currentContent, directImpacts, commitSha, error, run,
                   fetchLog, firstImpacts>>
    /\ UNCHANGED parserVars

\* return impacts
Return ==
    /\ pc = "analyze"
    /\ ti = Len(testFiles)
    /\ hi = Len(helperFiles)
    /\ pc' = "done"
    /\ UNCHANGED parserVars
    /\ UNCHANGED analyzerVars

\* the second call with impacts kept by the analyzer from call to call
AnalyzeAgainKeepingImpacts ==
    /\ pc = "done"
    /\ run = 1
    /\ run' = 2
    /\ pc' = "start"
    /\ firstImpacts' = impacts
    /\ testFiles' = <<>>
    /\ helperFiles' = <<>>
    /\ ti' = 0
    /\ hi' = 0
    /\ beforeContent' = Absent
    /\ currentContent' = Absent
    /\ directImpacts' = <<>>
    /\ indirectImpacts' = <<>>
    /\ gitDiff' = <<>>
    /\ lines' = <<>>
    /\ i' = 0
    /\ SetLocals(ParseStart)
    /\ UNCHANGED <<commit, tree, commitSha, error, project, fetchLog, impacts>>

\* analyzeCommit is called again on the same analyzer, for the same commit
\* of the same repository: its locals are new, the project of TestParser is
\* the one the first call left
AnalyzeAgain ==
    /\ pc = "done"
    /\ run = 1
    /\ run' = 2
    /\ pc' = "start"
    /\ firstImpacts' = impacts
    /\ impacts' = <<>>
    /\ testFiles' = <<>>
    /\ helperFiles' = <<>>
    /\ ti' = 0
    /\ hi' = 0
    /\ beforeContent' = Absent
    /\ currentContent' = Absent
    /\ directImpacts' = <<>>
    /\ indirectImpacts' = <<>>
    /\ gitDiff' = <<>>
    /\ lines' = <<>>
    /\ i' = 0
    /\ SetLocals(ParseStart)
    /\ UNCHANGED <<commit, tree, commitSha, error, project, fetchLog>>

Next ==
    \/ GetCommitDiffFails
    \/ GetChangedFiles
    \/ AnalyzeCommitTestFile
    \/ AnalyzeCommitHelperFile
    \/ Return

Spec == Init /\ [][Next]_vars

(***************************************************************************)
(* The analyzer called twice for a commit that changes up to two test      *)
(* files (a.spec.ts, c.spec.ts) and two helpers (g.ts, h.ts); git lists    *)
(* the files of a commit by path.                                          *)
(***************************************************************************)
FewVersions ==
    {Absent, Present(<<>>),
     Present(<<Open(Chars_test, NameA), StmtF, Close>>),
     Present(<<Open(Chars_test, NameB), StmtF, Close>>)}

OrNone(changes) == {<<>>} \cup {<<ch>> : ch \in changes}

CommitsAgain ==
    {a \o c \o g \o h :
        a \in OrNone(Changes(PathA, FewVersions)),
        c \in OrNone(Changes(PathC, {Absent, BaseVersion(PathC)})),
        g \in OrNone(Changes(PathG, {Present(<<StmtF>>), Present(<<StmtG>>)})),
        h \in OrNone(HelperChanges)}

InitAgain ==
    /\ pc = "start"
    /\ commitSha = ShaHead
    /\ commit \in CommitsAgain
    /\ tree = TreeAtHead
    /\ ParserIdle
    /\ AnalyzerIdle

NextAgain == Next \/ AnalyzeAgain

SpecAgain == InitAgain /\ [][NextAgain]_vars

(***************************************************************************)
(* The diff parser: C1, C2, C3.                                            *)
(***************************************************************************)
\* the sections of the diff that print path markers, in order
HasMarkers(f) == f.hunks # <<>>
MarkedSections == SelectSeq(gitDiff, HasMarkers)

\* the line numbers start .. start + count - 1
Range(start, count) == [j \in 1..count |-> start + j - 1]

\* the line numbers the hunk headers of a section declare on the old side
\* and on the new side, hunk after hunk
RECURSIVE DeclaredOld(_)
DeclaredOld(hs) ==
    IF hs = <<>> THEN <<>>
    ELSE Range(Head(hs).oldStart, Len(Head(hs).removed)) \o DeclaredOld(Tail(hs))

RECURSIVE DeclaredNew(_)
DeclaredNew(hs) ==
    IF hs = <<>> THEN <<>>
    ELSE Range(Head(hs).newStart, Len(Head(hs).added)) \o DeclaredNew(Tail(hs))

\* C1: when parseDiff has returned, the k-th file section that has path
\* markers is the k-th ChangedFile, and its deletedLines (addedLines) are
\* exactly the numbers oldStart .. oldStart+oldCount-1 (newStart ..
\* newStart+newCount-1) of the section's hunk headers, hunk after hunk: a
\* count left out is 1, a count of 0 adds nothing.
C1_HunkLines ==
    pc = "parsed" =>
        /\ Len(changedFiles) = Len(MarkedSections)
        /\ \A k \in 1..Len(changedFiles) :
              /\ changedFiles[k].deletedLines = DeclaredOld(MarkedSections[k].hunks)
              /\ changedFiles[k].addedLines = DeclaredNew(MarkedSections[k].hunks)

\* a section with two hunks, "@@ -9 +10 @@" (both counts left out) and
\* "@@ -9,2 +8,0 @@" (a count of 0), has been parsed
C1_Witness ==
    /\ pc = "parsed"
    /\ \E k \in 1..Len(changedFiles) :
          /\ Len(MarkedSections[k].hunks) = 2
          /\ HunkLine(MarkedSections[k].hunks[1]) =
                AtAt \o <<" ", "-", "9", " ", "+", "1", "0", " ">> \o AtAt
          /\ Len(MarkedSections[k].hunks[2].added) = 0
          /\ changedFiles[k].deletedLines = <<9, 9, 10>>
          /\ changedFiles[k].addedLines = <<10>>

\* what the path markers of a section say
MarkerType(f) ==
    IF f.old = DevNull THEN "added"
    ELSE IF f.new = DevNull THEN "deleted"
    ELSE "modified"

\* C2: every ChangedFile is classified by the path markers of its own
\* section: added when the old-file marker is /dev/null, deleted when the
\* new-file marker is /dev/null, modified otherwise; the classification and
\* the lines of a section do not carry over to the next one.
C2_Classification ==
    pc = "parsed" =>
        /\ Len(changedFiles) = Len(MarkedSections)
        /\ \A k \in 1..Len(changedFiles) :
              /\ changedFiles[k].changeType = MarkerType(MarkedSections[k])
              /\ changedFiles[k].deletedLines = DeclaredOld(MarkedSections[k].hunks)
              /\ changedFiles[k].addedLines = DeclaredNew(MarkedSections[k].hunks)

\* C3: every ChangedFile returned has no added lines when it is deleted and
\* no deleted lines when it is added.
C3_LineSetsMatchType ==
    pc = "parsed" =>
        \A k \in 1..Len(changedFiles) :
            /\ changedFiles[k].changeType = "deleted"
                  => changedFiles[k].addedLines = <<>>
            /\ changedFiles[k].changeType = "added"
                  => changedFiles[k].deletedLines = <<>>

(***************************************************************************)
(* The test-file pass: C4 .. C8. The formulas read the state after an      *)
(* iteration of the first loop of analyzeCommit: testFiles[ti] is the file *)
(* analyzeTestFile ran on, beforeContent and currentContent are what its   *)
(* fetches returned and directImpacts is what it returned.                 *)
(***************************************************************************)
Analyzed(type) == ti >= 1 /\ testFiles[ti].changeType = type

BothAvailable == beforeContent.present /\ currentContent.present

\* the test blocks of the two versions fetched
OldTests == ExtractTests(beforeContent.text)
NewTests == ExtractTests(currentContent.text)

Named(tests, name) == \E j \in 1..Len(tests) : tests[j].name = name

\* one direct result of the given type per block, in the order of the blocks
Expected(tests, type) ==
    [j \in 1..Len(tests) |->
        [testName |-> tests[j].name, filePath |-> testFiles[ti].path,
         impactType |-> type]]

\* the results of the given type, in the order they were reported
Reported(results, type) ==
    LET OfType(r) == r.impactType = type
    IN  SelectSeq(results, OfType)

\* a number of ls lies in the inclusive span of the block
Touches(ls, test) ==
    \E j \in 1..Len(ls) : test.startLine <= ls[j] /\ ls[j] <= test.endLine

\* C4: for a modified test file with both versions available, the results
\* of type added are exactly the blocks of the new version whose name is
\* the name of no block of the old version, whether or not addedLines
\* touches them; no block whose name occurs in the old version is reported
\* added.
C4_AddedTests ==
    (Analyzed("modified") /\ BothAvailable) =>
        LET IsNew(test) == ~Named(OldTests, test.name)
        IN  Reported(directImpacts, "added") =
                Expected(SelectSeq(NewTests, IsNew), "added")

\* C5: for a modified test file with both versions available, the results
\* of type removed are exactly the blocks of the old version whose name is
\* the name of no block of the new version; so a renamed test is one removed
\* and one added result, and no result of type modified has a name that is
\* not in both versions.
C5_RemovedTests ==
    (Analyzed("modified") /\ BothAvailable) =>
        LET IsGone(test) == ~Named(NewTests, test.name)
        IN  /\ Reported(directImpacts, "removed") =
                  Expected(SelectSeq(OldTests, IsGone), "removed")
            /\ \A j \in 1..Len(directImpacts) :
                  directImpacts[j].impactType = "modified" =>
                      /\ Named(OldTests, directImpacts[j].testName)
                      /\ Named(NewTests, directImpacts[j].testName)

\* C6: for a modified test file with both versions available, the results
\* of type modified are exactly the blocks of the new version whose name
\* occurs in the old version and whose inclusive span [startLine, endLine]
\* holds a number of addedLines; a block of a name in both versions with no
\* added line in its span is not reported, also when blocks share a name.
C6_ModifiedTests ==
    (Analyzed("modified") /\ BothAvailable) =>
        LET IsChanged(test) ==
                /\ Named(OldTests, test.name)
                /\ Touches(testFiles[ti].addedLines, test)
        IN  Reported(directImpacts, "modified") =
                Expected(SelectSeq(NewTests, IsChanged), "modified")

\* two blocks of the new version share a name that the old version has; an
\* added line lies in one and none in the other, and one result of type
\* modified was reported
C6_Witness ==
    /\ Analyzed("modified")
    /\ BothAvailable
    /\ Len(Reported(directImpacts, "modified")) = 1
    /\ \E x, y \in 1..Len(NewTests) :
          /\ NewTests[x].name = NewTests[y].name
          /\ Named(OldTests, NewTests[x].name)
          /\ Touches(testFiles[ti].addedLines, NewTests[x])
          /\ ~Touches(testFiles[ti].addedLines, NewTests[y])

\* C7: for a modified test file, a test of a name in both versions is
\* reported modified whenever a line added in the new version lies in its
\* block there or a line deleted from the old version lies in its block
\* there (lines deleted from inside the test's body are enough).
C7_DeletedLinesMarkModified ==
    (Analyzed("modified") /\ BothAvailable) =>
        \A x \in 1..Len(NewTests), y \in 1..Len(OldTests) :
            (/\ NewTests[x].name = OldTests[y].name
             /\ \/ Touches(testFiles[ti].addedLines, NewTests[x])
                \/ Touches(testFiles[ti].deletedLines, OldTests[y]))
            => \E j \in 1..Len(directImpacts) :
                  /\ directImpacts[j].testName = NewTests[x].name
                  /\ directImpacts[j].impactType = "modified"

\* C8: for an added test file the direct results are one result of type
\* added per block of the new version fetched, and nothing else; for a
\* deleted test file they are one result of type removed per block of the
\* old version fetched, and nothing else (a fetch that returns nothing gives
\* no block). addedLines and deletedLines are not consulted.
C8_WholeFile ==
    /\ Analyzed("added") =>
          directImpacts =
              Expected(IF currentContent.present THEN NewTests ELSE <<>>, "added")
    /\ Analyzed("deleted") =>
          directImpacts =
              Expected(IF beforeContent.present THEN OldTests ELSE <<>>, "removed")

\* a deleted test file that held two tests of different names: two results
\* of type removed
C8_Witness ==
    /\ Analyzed("deleted")
    /\ beforeContent.present
    /\ Len(OldTests) = 2
    /\ OldTests[1].name # OldTests[2].name
    /\ Len(directImpacts) = 2
    /\ \A j \in 1..2 : directImpacts[j].impactType = "removed"

(***************************************************************************)
(* The helper-file pass: C9, C10. helperFiles[hi] is the file              *)
(* analyzeHelperFile ran on and indirectImpacts is what it returned.       *)
(***************************************************************************)
\* the file of the working tree is a test file (either suffix) with an
\* import that resolves to the helper
ImportsResolveTo(f, helper) ==
    /\ EndsWith(f.name, SpecTs) \/ EndsWith(f.name, TestTs)
    /\ \E l \in 1..Len(f.content) :
          /\ f.content[l].k = "import"
          /\ NormalizePath(ResolveImportPath(f.fullPath, f.content[l].name))
                = PathJoin(RepoPath, helper.path)

IndirectResult(test, f) ==
    [testName |-> test.name, filePath |-> f.name,
     impactType |-> "modified", isIndirect |-> TRUE]

\* C9: for a changed helper file, the indirect results are one result per
\* current block of each test file with an import resolving to the helper
\* (type modified, isIndirect true, the test file's path relative to the
\* repository), whatever the lines changed, and nothing else: a test file
\* that imports other helpers only gives no result.
C9_IndirectResults ==
    hi >= 1 =>
        /\ \A f \in 1..Len(tree) :
              ImportsResolveTo(tree[f], helperFiles[hi]) =>
                  \A t \in 1..Len(ExtractTests(tree[f].content)) :
                      Cardinality({j \in 1..Len(indirectImpacts) :
                          indirectImpacts[j] =
                              IndirectResult(ExtractTests(tree[f].content)[t], tree[f])})
                          = 1
        /\ \A j \in 1..Len(indirectImpacts) :
              \E f \in 1..Len(tree) :
                  /\ ImportsResolveTo(tree[f], helperFiles[hi])
                  /\ \E t \in 1..Len(ExtractTests(tree[f].content)) :
                        indirectImpacts[j] =
                            IndirectResult(ExtractTests(tree[f].content)[t], tree[f])

Flagged(r) == "isIndirect" \in DOMAIN r /\ r.isIndirect

\* C10: every result of the helper-file pass has type modified and
\* isIndirect true, no result of the test-file pass has isIndirect true, and
\* so no result of type added or removed in the sequence analyzeCommit
\* builds is flagged indirect.
C10_IndirectFlag ==
    /\ \A j \in 1..Len(indirectImpacts) :
          indirectImpacts[j].impactType = "modified" /\ Flagged(indirectImpacts[j])
    /\ \A j \in 1..Len(directImpacts) : ~Flagged(directImpacts[j])
    /\ \A j \in 1..Len(impacts) :
          Flagged(impacts[j]) => impacts[j].impactType = "modified"

\* analyzeCommit has returned the results of both passes: a direct result
\* of type added and the indirect results of a changed helper
C10_Witness ==
    /\ pc = "done"
    /\ hi >= 1
    /\ indirectImpacts # <<>>
    /\ \E j \in 1..Len(directImpacts) : directImpacts[j].impactType = "added"
    /\ impacts = directImpacts \o indirectImpacts

(***************************************************************************)
(* The import tracker: C11, C12. The formulas read findTestFilesImporting  *)
(* as analyzeHelperFile called it for helperFiles[hi].                     *)
(***************************************************************************)
HelperPath == PathJoin(RepoPath, helperFiles[hi].path)

\* C11: findTestFilesImporting(target) returns, once each, every test file
\* of the repository tree (a file with either test-file suffix, .spec.ts or
\* .test.ts, as the classifier has it) that has an import resolving to the
\* target, and nothing else.
C11_EveryTestFile ==
    hi >= 1 =>
        LET found == FindTestFilesImporting(HelperPath)
        IN  /\ \A f \in 1..Len(tree) :
                  ImportsResolveTo(tree[f], helperFiles[hi]) =>
                      Cardinality({j \in 1..Len(found) :
                                      found[j] = tree[f].fullPath}) = 1
            /\ \A j \in 1..Len(found) :
                  \E f \in 1..Len(tree) :
                      /\ found[j] = tree[f].fullPath
                      /\ ImportsResolveTo(tree[f], helperFiles[hi])

\* the specifier does not begin with a relative marker (./ or ../)
NonRelative(specifier) ==
    /\ ~StartsWith(specifier, <<".", "/">>)
    /\ ~StartsWith(specifier, <<".", ".", "/">>)

\* C12: an import with a non-relative specifier never makes its test file
\* count as importing a changed helper: for every such import of every file
\* scanned, the path comparison of findTestFilesImporting is false.
C12_BareSpecifierNeverMatches ==
    hi >= 1 =>
        \A f \in 1..Len(tree) :
            IsSpecEntry(tree[f]) =>
                \A l \in 1..Len(tree[f].content) :
                    (/\ tree[f].content[l].k = "import"
                     /\ NonRelative(tree[f].content[l].name))
                    => NormalizePath(ResolveImportPath(tree[f].fullPath,
                                                       tree[f].content[l].name))
                           # NormalizePath(HelperPath)

(***************************************************************************)
(* The whole analysis: C13, C16, C17. fetchLog[k] is what the fetches      *)
(* returned for testFiles[k].                                              *)
(***************************************************************************)
\* the fetcher reported absent content for the k-th changed test file
Degraded(k) ==
    LET type == testFiles[k].changeType
    IN  \/ type # "added" /\ ~fetchLog[k][1].present
        \/ type # "deleted" /\ ~fetchLog[k][2].present

\* the direct results of the k-th changed test file on its own
DirectOf(k) == AnalyzeTestFile(testFiles[k], fetchLog[k][1], fetchLog[k][2])

\* the direct results of the test files from the k-th on, file after file,
\* those with absent content left out of the diff
RECURSIVE DirectOfOthers(_)
DirectOfOthers(k) ==
    IF k > Len(testFiles) THEN <<>>
    ELSE (IF Degraded(k) THEN <<>> ELSE DirectOf(k)) \o DirectOfOthers(k + 1)

\* the indirect results of the helper files from the k-th on
RECURSIVE IndirectFrom(_)
IndirectFrom(k) ==
    IF k > Len(helperFiles) THEN <<>>
    ELSE AnalyzeHelperFile(helperFiles[k]) \o IndirectFrom(k + 1)

\* C13: a changed test file whose content the fetcher reports absent (the
\* new content of an added file, the old content of a deleted file, either
\* content of a modified file) gives no result, and analyzeCommit returns
\* the results of the other changed files as if that file were not in the
\* diff.
C13_AbsentContentDegrades ==
    /\ (ti >= 1 /\ Len(fetchLog) >= ti /\ Degraded(ti)) => directImpacts = <<>>
    /\ pc = "done" => impacts = DirectOfOthers(1) \o IndirectFrom(1)

\* analyzeCommit has returned: the old content of the first test file was
\* absent, the second test file and a helper gave results
C13_Witness ==
    /\ pc = "done"
    /\ run = 1
    /\ Len(testFiles) = 2
    /\ testFiles[1].changeType = "modified"
    /\ ~fetchLog[1][1].present
    /\ fetchLog[1][2].present /\ fetchLog[1][2].text # <<>>
    /\ ~Degraded(2)
    /\ directImpacts # <<>>
    /\ indirectImpacts # <<>>
    /\ impacts = directImpacts \o IndirectFrom(1)

\* C16: analyzeCommit called twice for the same commit, with the diff, the
\* versions fetched and the repository tree unchanged, returns the same
\* multiset of results both times, the second call on the same analyzer
\* with the source files its parser kept.
Count(results, r) == Cardinality({j \in 1..Len(results) : results[j] = r})

SameMultiset(a, b) ==
    /\ Len(a) = Len(b)
    /\ \A j \in 1..Len(a) : Count(a, a[j]) = Count(b, a[j])

C16_SameResultsAgain ==
    (run = 2 /\ pc = "done") => SameMultiset(impacts, firstImpacts)

\* the second call has returned direct and indirect results, and the parser
\* had kept source files from the first call
C16_Witness ==
    /\ run = 2
    /\ pc = "done"
    /\ project # {}
    /\ directImpacts # <<>>
    /\ indirectImpacts # <<>>
    /\ Len(impacts) > Len(indirectImpacts)

\* the direct results of the test files from the k-th on, file after file
RECURSIVE DirectOfAll(_)
DirectOfAll(k) ==
    IF k > Len(testFiles) THEN <<>> ELSE DirectOf(k) \o DirectOfAll(k + 1)

\* C17: the sequence analyzeCommit returns is the direct results of every
\* changed test file, in diff order, followed by the indirect results of
\* every changed helper file, in diff order, nothing removed or merged: a
\* test whose file changed and imports a changed helper, or imports two
\* changed helpers, appears once for each cause.
C17_Concatenation ==
    pc = "done" => impacts = DirectOfAll(1) \o IndirectFrom(1)

\* two test files and two helpers changed; a test of a changed test file is
\* a direct result and an indirect one, and a test of a file importing both
\* helpers is an indirect result twice
C17_Witness ==
    /\ pc = "done"
    /\ Len(testFiles) = 2
    /\ Len(helperFiles) = 2
    /\ \E j, k \in 1..Len(impacts) :
          /\ ~Flagged(impacts[j]) /\ Flagged(impacts[k])
          /\ impacts[j].testName = impacts[k].testName
          /\ impacts[j].filePath = impacts[k].filePath
    /\ \E j, k \in 1..Len(impacts) :
          j < k /\ Flagged(impacts[j]) /\ impacts[j] = impacts[k]

(***************************************************************************)
(* Failure, and the cases left: C14, C15, C18, C19.                        *)
(***************************************************************************)
\* the text t occurs in s
Contains(s, t) ==
    \E q \in 1..(Len(s) - Len(t) + 1) : SubSeq(s, q, q + Len(t) - 1) = t

\* C14: when git cannot show the commit, analyzeCommit is rejected with an
\* error whose message holds the commit reference and no result exists; an
\* analysis that returns, with results or with none, has no error. A
\* reference git does not resolve never gets past the diff.
C14_DiffFailure ==
    /\ pc = "failed" => error # <<>> /\ Contains(error, commitSha) /\ impacts = <<>>
    /\ pc = "done" => error = <<>>
    /\ commitSha = ShaBad => pc \in {"start", "failed"}

\* analyzeCommit was rejected for a reference git does not resolve
C14_Witness ==
    /\ pc = "failed"
    /\ commitSha = ShaBad
    /\ error = FailedToGetDiff(ShaBad, <<"f", "a", "t", "a", "l">>)

\* C15: a changed test file whose old and new content are the same text
\* gives no direct result, whatever lines the diff recorded for it.
C15_IdenticalContents ==
    (/\ ti >= 1
     /\ BothAvailable
     /\ beforeContent.text = currentContent.text)
    => directImpacts = <<>>

\* what each line of the diff text is: the header of a file section, its
\* old-file or new-file marker, a hunk header, or a line of a hunk body
KindsOfHunk(h) ==
    <<"hunk">> \o [j \in 1..(Len(h.removed) + Len(h.added)) |-> "body"]

RECURSIVE KindsOfHunks(_)
KindsOfHunks(hs) ==
    IF hs = <<>> THEN <<>> ELSE KindsOfHunk(Head(hs)) \o KindsOfHunks(Tail(hs))

KindsOfFile(f) ==
    <<"header">> \o (IF f.hunks = <<>> THEN <<>> ELSE <<"old", "new">>)
                 \o KindsOfHunks(f.hunks)

RECURSIVE LineKinds(_)
LineKinds(d) ==
    IF d = <<>> THEN <<>> ELSE KindsOfFile(Head(d)) \o LineKinds(Tail(d))

\* C18: the iteration of parseDiff on a line of a hunk body, whatever its
\* text, leaves the current file's path and changeType as they are: the two
\* are set by the path markers of the section only.
C18_BodyLinesLeavePathAndType ==
    [][(/\ pc = "parse"
        /\ i < Len(lines)
        /\ LineKinds(gitDiff)[i + 1] = "body")
       => (currentFile' = currentFile /\ changeType' = changeType)]_vars

\* C19: a version that is available and is the empty text is a version of
\* no test: for a modified test file whose old version is empty every test
\* of the new version is reported added, and when the new version is empty
\* every test of the old version is reported removed.
C19_EmptyTextIsNoTests ==
    (Analyzed("modified") /\ BothAvailable) =>
        /\ beforeContent.text = <<>> =>
              directImpacts = Expected(NewTests, "added")
        /\ currentContent.text = <<>> =>
              directImpacts = Expected(OldTests, "removed")

====
